---------------------------- MODULE Spec2Model ----------------------------
(***************************************************************************)
(* Model of src/interactive_rsi.py: the RSI tutorial pipeline              *)
(*   fetch_stock_data -> calculate_rsi -> interpret_results                *)
(* driven by the __main__ block.                                           *)
(*                                                                         *)
(* Floating-point values are modelled as exact rationals, without the     *)
(* rounding of float64: a value the code computes within a few ulps of a   *)
(* threshold (30 or 70) may be classified differently by the code.  No     *)
(* series within the bounds below produces such a value.  The smoothed     *)
(* averages of a 14-period EWMA over 20 steps have denominators near       *)
(* 15^20, so integers are kept as digit sequences (least significant digit *)
(* first, radix Base) with an explicit sign.                               *)
(*                                                                         *)
(* A missing value (NaN) is the empty sequence <<>>; a defined value x is  *)
(* the one-element sequence <<x>>.                                         *)
(***************************************************************************)
EXTENDS Integers, Sequences, FiniteSets

-----------------------------------------------------------------------------
(* Bounds of the model.                                                    *)

\* longest price series enumerated exhaustively
MaxLen == 5
\* closing prices are drawn from 0..MaxPrice (or are missing)
MaxPrice == 1
\* look-back periods 0..MaxPeriod are explored besides RSI_PERIOD
MaxPeriod == 3
\* the shortest scenario series has ScenarioSteps prices
ScenarioSteps == 20
\* ... and the longest ScenarioSteps + MaxExtra
MaxExtra == 2
\* a monotone scenario series moves by 1..MaxStep per step
MaxStep == 2
\* the classifier is exercised on RSI values n / GridDen
GridDen == 4
\* ... from -GridMargin to 100 + GridMargin
GridMargin == 2

-----------------------------------------------------------------------------
(* Program constants.                                                      *)

RSI_PERIOD == 14
OverboughtLevel == 70
OversoldLevel == 30
Saturation == 100
Hundred == 100

-----------------------------------------------------------------------------
(* Exact arithmetic standing in for float64.                               *)

Base == 100 * 100

\* natural numbers: sequences of digits, least significant first, no
\* most-significant zero digit; zero is <<>>
RECURSIVE NatOf(_)
NatOf(n) == IF n = 0 THEN <<>> ELSE <<n % Base>> \o NatOf(n \div Base)

RECURSIVE NatNorm(_)
NatNorm(a) ==
  IF a = <<>> THEN <<>>
  ELSE IF a[Len(a)] = 0 THEN NatNorm(SubSeq(a, 1, Len(a) - 1))
  ELSE a

Rest(a) == IF a = <<>> THEN <<>> ELSE Tail(a)
Low(a) == IF a = <<>> THEN 0 ELSE Head(a)

RECURSIVE NatAddC(_, _, _)
NatAddC(a, b, c) ==
  IF a = <<>> /\ b = <<>>
  THEN (IF c = 0 THEN <<>> ELSE <<c>>)
  ELSE LET x == Low(a) + Low(b) + c
       IN  <<x % Base>> \o NatAddC(Rest(a), Rest(b), x \div Base)

NatAdd(a, b) == NatAddC(a, b, 0)

\* a - b for a >= b
RECURSIVE NatSubB(_, _, _)
NatSubB(a, b, c) ==
  IF a = <<>> THEN <<>>
  ELSE LET x == Low(a) - Low(b) - c
       IN  IF x < 0
           THEN <<x + Base>> \o NatSubB(Rest(a), Rest(b), 1)
           ELSE <<x>> \o NatSubB(Rest(a), Rest(b), 0)

NatSub(a, b) == NatNorm(NatSubB(a, b, 0))

\* -1, 0, 1 as a < b, a = b, a > b
RECURSIVE NatCmpFrom(_, _, _)
NatCmpFrom(a, b, i) ==
  IF i = 0 THEN 0
  ELSE IF a[i] < b[i] THEN -1
  ELSE IF a[i] > b[i] THEN 1
  ELSE NatCmpFrom(a, b, i - 1)

NatCmp(a, b) ==
  IF Len(a) < Len(b) THEN -1
  ELSE IF Len(a) > Len(b) THEN 1
  ELSE NatCmpFrom(a, b, Len(a))

\* a * m for one digit m
RECURSIVE NatMulDigit(_, _, _)
NatMulDigit(a, m, c) ==
  IF a = <<>>
  THEN (IF c = 0 THEN <<>> ELSE <<c>>)
  ELSE LET x == Head(a) * m + c
       IN  <<x % Base>> \o NatMulDigit(Tail(a), m, x \div Base)

RECURSIVE NatMul(_, _)
NatMul(a, b) ==
  IF a = <<>> \/ b = <<>> THEN <<>>
  ELSE NatAdd(IF Head(a) = 0 THEN <<>> ELSE NatMulDigit(b, Head(a), 0),
              NatNorm(<<0>> \o NatMul(Tail(a), b)))

\* signed integers
IntOf(n) == [neg |-> n < 0, mag |-> NatOf(IF n < 0 THEN -n ELSE n)]
IntNeg(a) == [neg |-> (~a.neg) /\ a.mag # <<>>, mag |-> a.mag]
IntSign(a) == IF a.mag = <<>> THEN 0 ELSE IF a.neg THEN -1 ELSE 1

IntAdd(a, b) ==
  IF a.neg = b.neg THEN [neg |-> a.neg, mag |-> NatAdd(a.mag, b.mag)]
  ELSE LET c == NatCmp(a.mag, b.mag)
       IN  IF c = 0 THEN [neg |-> FALSE, mag |-> <<>>]
           ELSE IF c > 0 THEN [neg |-> a.neg, mag |-> NatSub(a.mag, b.mag)]
           ELSE [neg |-> b.neg, mag |-> NatSub(b.mag, a.mag)]

IntSub(a, b) == IntAdd(a, IntNeg(b))

IntMul(a, b) ==
  LET m == NatMul(a.mag, b.mag)
  IN  [neg |-> (a.neg # b.neg) /\ m # <<>>, mag |-> m]

\* rationals num/den with den > 0
Rat(n, d) == [num |-> n, den |-> d]
RatOf(n) == Rat(IntOf(n), IntOf(1))
Frac(n, d) == Rat(IntOf(n), IntOf(d))
RatIsZero(a) == IntSign(a.num) = 0
RatAdd(a, b) ==
  Rat(IntAdd(IntMul(a.num, b.den), IntMul(b.num, a.den)), IntMul(a.den, b.den))
RatSub(a, b) ==
  Rat(IntSub(IntMul(a.num, b.den), IntMul(b.num, a.den)), IntMul(a.den, b.den))
RatDiv(a, b) ==
  LET n == IntMul(a.num, b.den)
      d == IntMul(a.den, b.num)
  IN  IF IntSign(d) < 0 THEN Rat(IntNeg(n), IntNeg(d)) ELSE Rat(n, d)
\* sign of a - b
RatCmp(a, b) == IntSign(IntSub(IntMul(a.num, b.den), IntMul(b.num, a.den)))
RatEq(a, b) == RatCmp(a, b) = 0
RatLt(a, b) == RatCmp(a, b) < 0
RatGt(a, b) == RatCmp(a, b) > 0


-----------------------------------------------------------------------------
(* Tables and series.                                                      *)
(* A table (DataFrame) is a record: index (the timestamps, in order),      *)
(* columns (the column names, in order), Close and RSI (one value per      *)
(* row; RSI is <<>> while the table has no such column).                   *)
(* A series is a sequence of entries [t |-> timestamp, v |-> value].       *)

NaN == <<>>
IsNaN(v) == v = <<>>

\* the table yf.download returns for the rows of the data source
MakeTable(rows) ==
  [index |-> [i \in 1..Len(rows) |-> i],
   columns |-> <<"Close">>,
   Close |-> rows,
   RSI |-> <<>>]

HasColumn(table, name) == \E i \in DOMAIN table.columns : table.columns[i] = name

\* data['Close']
CloseSeries(table) ==
  [i \in 1..Len(table.index) |-> [t |-> table.index[i], v |-> table.Close[i]]]

\* variant of diff: the first row's change is 0 instead of missing
diff_fill(s) ==
  [i \in 1..Len(s) |->
     [t |-> s[i].t,
      v |-> IF i = 1 THEN <<0>>
            ELSE IF IsNaN(s[i].v) \/ IsNaN(s[i - 1].v) THEN NaN
            ELSE <<s[i].v[1] - s[i - 1].v[1]>>]]

\* Series.diff(1)
diff(s) ==
  [i \in 1..Len(s) |->
     [t |-> s[i].t,
      v |-> IF i = 1 THEN NaN
            ELSE IF IsNaN(s[i].v) \/ IsNaN(s[i - 1].v) THEN NaN
            ELSE <<s[i].v[1] - s[i - 1].v[1]>>]]

\* Series.dropna()
dropna(s) == SelectSeq(s, LAMBDA e : ~IsNaN(e.v))

\* variant of ClipGain: the magnitude of the change instead of its positive part
ClipGain_abs(d) == IF d < 0 THEN -d ELSE d

\* gain[gain < 0] = 0
ClipGain(d) == IF d < 0 THEN 0 ELSE d
\* loss[loss > 0] = 0
ClipLoss(d) == IF d > 0 THEN 0 ELSE d
\* variant of AbsLoss: the .abs() left out
AbsLoss_id(d) == d

\* the magnitude .abs() gives one value
AbsLoss(d) == IF d < 0 THEN -d ELSE d

\* gain = delta.copy(); gain[gain < 0] = 0
GainSeries(delta) ==
  [i \in 1..Len(delta) |-> [t |-> delta[i].t, v |-> <<ClipGain(delta[i].v[1])>>]]
\* loss = delta.copy(); loss[loss > 0] = 0
LossSeries(delta) ==
  [i \in 1..Len(delta) |-> [t |-> delta[i].t, v |-> <<ClipLoss(delta[i].v[1])>>]]
\* loss.abs()
AbsSeries(loss) ==
  [i \in 1..Len(loss) |-> [t |-> loss[i].t, v |-> <<AbsLoss(loss[i].v[1])>>]]

\* variant of MinPeriods: min_periods left out (one observation is enough)
MinPeriods_one(period) == 1

\* ewm(..., min_periods=period): the number of observations an output needs
MinPeriods(period) == IF period < 1 THEN 1 ELSE period

\* ewm(span=period).mean() with adjust=True over a series without NaN:
\* out[k] = sum_i w^(k-i) x[i] / sum_i w^(k-i), w = (span-1)/(span+1),
\* carried as running sums scaled by c = (span+1)^(k-1):
\*   s = c * sum_i w^(k-i) x[i],  n = c * sum_i w^(k-i)
RECURSIVE EwmScan(_, _, _, _, _, _, _)
EwmScan(x, span, minp, k, s, n, c) ==
  IF k > Len(x) THEN <<>>
  ELSE LET c1 == IF k = 1 THEN IntOf(1) ELSE IntMul(IntOf(span + 1), c)
           s1 == IntAdd(IntMul(IntOf(span - 1), s), IntMul(c1, IntOf(x[k].v[1])))
           n1 == IntAdd(IntMul(IntOf(span - 1), n), c1)
       IN  <<[t |-> x[k].t, v |-> IF k >= minp THEN <<Rat(s1, n1)>> ELSE NaN]>>
           \o EwmScan(x, span, minp, k + 1, s1, n1, c1)

ewm_mean(x, span, minp) == EwmScan(x, span, minp, 1, IntOf(0), IntOf(0), IntOf(1))

\* variant of RsValue: saturates only when there was a gain, 0/0 taken as 0
RsValue_flat(g, l) ==
  IF RatIsZero(l) THEN (IF RatIsZero(g) THEN RatOf(0) ELSE RatOf(Saturation))
  ELSE RatDiv(g, l)

\* np.where(aligned_loss == 0, 100.0, aligned_gain / aligned_loss)
RsValue(g, l) == IF RatIsZero(l) THEN RatOf(Saturation) ELSE RatDiv(g, l)

\* 100 - (100 / (1 + rs))
RsiValue(r) == RatSub(RatOf(Hundred), RatDiv(RatOf(Hundred), RatAdd(RatOf(1), r)))

\* position of timestamp t in an index
Position(index, t) == CHOOSE i \in 1..Len(index) : index[i] = t
Labels(s) == {s[i].t : i \in 1..Len(s)}
ValueAt(s, t) == s[CHOOSE i \in 1..Len(s) : s[i].t = t].v

\* the table after data.loc[rsi.index, 'RSI'] = rsi
WithRsi(table, rsi) ==
  [table EXCEPT
     !.columns = IF HasColumn(table, "RSI") THEN @ ELSE Append(@, "RSI"),
     !.RSI = [i \in 1..Len(table.index) |->
                IF table.index[i] \in Labels(rsi) THEN ValueAt(rsi, table.index[i])
                ELSE IF HasColumn(table, "RSI") THEN table.RSI[i]
                ELSE NaN]]

\* the locals of calculate_rsi are kept in a record, filled stage by stage

\* lines 59-70: delta, gain, loss
AfterDelta(loc, table) ==
  LET delta == dropna(diff(CloseSeries(table)))
  IN  [loc EXCEPT !.delta = delta,
                  !.gain = GainSeries(delta),
                  !.loss = LossSeries(delta)]

\* lines 78-79: avg_gain, avg_loss
AfterSmoothing(loc, period) ==
  LET abs_loss == AbsSeries(loc.loss)
  IN  [loc EXCEPT !.abs_loss = abs_loss,
                  !.avg_gain = ewm_mean(loc.gain, period, MinPeriods(period)),
                  !.avg_loss = ewm_mean(abs_loss, period, MinPeriods(period))]

\* lines 98-109: rs, from the values of the two averages taken by position
AfterRatio(loc) ==
  LET aligned_gain == dropna(loc.avg_gain)
      aligned_loss == dropna(loc.avg_loss)
  IN  [loc EXCEPT !.rs =
         [i \in 1..Len(aligned_loss) |->
            [t |-> aligned_loss[i].t,
             v |-> <<RsValue(aligned_gain[i].v[1], aligned_loss[i].v[1])>>]]]

\* line 125: rsi
AfterRsi(loc) ==
  [loc EXCEPT !.rsi =
     [i \in 1..Len(loc.rs) |->
        [t |-> loc.rs[i].t, v |-> <<RsiValue(loc.rs[i].v[1])>>]]]

NoLocals ==
  [delta |-> <<>>, gain |-> <<>>, loss |-> <<>>, abs_loss |-> <<>>,
   avg_gain |-> <<>>, avg_loss |-> <<>>, rs |-> <<>>, rsi |-> <<>>]

\* variant of AssignAndReturn: the RSI field is added to a copy of the table
AssignAndReturn_copy(objs, ref, rsi) ==
  [objs |-> Append(objs, WithRsi(objs[ref], rsi)), ret |-> Len(objs) + 1]

\* data.loc[rsi.index, 'RSI'] = rsi; return data
\* objs is the heap of tables, ref the table passed in; the result is the
\* heap afterwards and the reference returned
AssignAndReturn(objs, ref, rsi) ==
  [objs |-> [objs EXCEPT ![ref] = WithRsi(objs[ref], rsi)], ret |-> ref]

\* variant of IsEmpty: the emptiness check left out
IsEmpty_never(rows) == FALSE

\* stock_data.empty
IsEmpty(rows) == Len(rows) = 0

\* span < 1 is rejected by ewm
SpanRejected(period) == period < 1

\* variant of LastRsi: .iloc[0]
LastRsi_first(table) == table.RSI[1]

\* data['RSI'].iloc[-1]
LastRsi(table) == table.RSI[Len(table.RSI)]

\* variant of Classify: the upper threshold compared with >=
Classify_ge(last_rsi) ==
  IF IsNaN(last_rsi) THEN "UNDETERMINED"
  ELSE IF ~RatLt(last_rsi[1], RatOf(OverboughtLevel)) THEN "OVERBOUGHT"
  ELSE IF RatLt(last_rsi[1], RatOf(OversoldLevel)) THEN "OVERSOLD"
  ELSE "NEUTRAL"

\* the if/elif chain of interpret_results
Classify(last_rsi) ==
  IF IsNaN(last_rsi) THEN "UNDETERMINED"
  ELSE IF RatGt(last_rsi[1], RatOf(OverboughtLevel)) THEN "OVERBOUGHT"
  ELSE IF RatLt(last_rsi[1], RatOf(OversoldLevel)) THEN "OVERSOLD"
  ELSE "NEUTRAL"

-----------------------------------------------------------------------------
(* Inputs: what the data source returns and the look-back period.          *)

PriceValues == {NaN} \cup {<<p>> : p \in 0..MaxPrice}

\* every series of at most MaxLen rows
ShortSeries == UNION {[1..n -> PriceValues] : n \in 0..MaxLen}

\* the price after i steps of a series whose steps alternate a, b, a, b, ...
Climb(a, b, i) == (i \div 2) * (a + b) + (IF i % 2 = 1 THEN a ELSE 0)

ScenarioLengths == ScenarioSteps..(ScenarioSteps + MaxExtra)

FlatSeries == {[i \in 1..n |-> <<c>>] : c \in 0..MaxPrice, n \in ScenarioLengths}

RisingSeries ==
  {[i \in 1..n |-> <<Climb(a, b, i - 1)>>] :
     a \in 1..MaxStep, b \in 1..MaxStep, n \in ScenarioLengths}

FallingSeries ==
  {[i \in 1..n |-> <<Climb(a, b, n - 1) - Climb(a, b, i - 1)>>] :
     a \in 1..MaxStep, b \in 1..MaxStep, n \in ScenarioLengths}

Sources == ShortSeries \cup FlatSeries \cup RisingSeries \cup FallingSeries

Periods == (0..MaxPeriod) \cup {RSI_PERIOD}

-----------------------------------------------------------------------------
(* State.                                                                  *)
(* Every wait_for_keystroke is a position of its own: the step that leaves *)
(* it is the return of input() followed by the code up to the next wait.   *)
(* The environment (stdin, stdout, the network, the installation, SIGINT)  *)
(* can end a run anywhere; raised_at tells such an exception from one that *)
(* a statement of the program raises on its data (lines 36, 78 and 145),   *)
(* whatever the type of the exception is.                                  *)

VARIABLES
  pc,           \* position of the program:
                \*   begin      at lines 180-181, before the try block
                \*   start      entering the try block
                \*   fetched    stock_data assigned, calculate_rsi waiting at 54
                \*   delta      calculate_rsi waiting at 71
                \*   smoothed   calculate_rsi waiting at 91
                \*   ratio      calculate_rsi waiting at 118
                \*   calculated df_with_rsi assigned, interpret_results waiting at 140
                \*   read       interpret_results waiting at 150
                \*   done       interpret_results returned
                \*   error      in an except clause of __main__
                \*   aborted    an exception left the program uncaught
  source,       \* the rows the data source holds for TICKER / PERIOD
  period,       \* the look-back period passed to calculate_rsi
  tables,       \* the heap of table objects; a reference is a position in it
  stock_data,   \* __main__'s stock_data (0: unassigned)
  df_with_rsi,  \* __main__'s df_with_rsi (0: unassigned)
  calc,         \* the locals of calculate_rsi
  last_rsi,     \* interpret_results' last_rsi
  band,         \* the branch interpret_results took (NONE: none)
  error,        \* the type of the last exception raised (none: no exception)
  raised_at,    \* where it came from: the function whose statement raised it
                \* on its data, or environment (none: no exception)
  handler,      \* who received it: except ValueError, except Exception, uncaught
  called        \* the functions __main__ has called, in order

vars == <<pc, source, period, tables, stock_data, df_with_rsi, calc,
          last_rsi, band, error, raised_at, handler, called>>

Init ==
  /\ pc = "begin"
  /\ source \in Sources
  /\ period \in Periods
  /\ tables = <<>>
  /\ stock_data = 0
  /\ df_with_rsi = 0
  /\ calc = NoLocals
  /\ last_rsi = NaN
  /\ band = "NONE"
  /\ error = "none"
  /\ raised_at = "none"
  /\ handler = "none"
  /\ called = <<>>

\* the waits inside the try block
TryWaits == {"fetched", "delta", "smoothed", "ratio", "calculated", "read"}

\* what a print() can raise: the write fails (OSError) or the stream is a
\* closed file (ValueError); with sys.stdout None print() does nothing
PrintErrors == {"OSError", "ValueError"}

\* a print() of text that is not ASCII (lines 40, 157-168, 180) can also
\* fail to encode it
EncodeErrors == PrintErrors \cup {"UnicodeEncodeError"}

\* what wait_for_keystroke can raise: its print (12), sys.stdout.flush()
\* (13: AttributeError when sys.stdout is None), input() (14: EOFError at end
\* of input, UnicodeDecodeError on undecodable bytes, RuntimeError when
\* sys.stdin or sys.stdout is lost) and SIGINT
WaitErrors ==
  PrintErrors \cup {"AttributeError", "EOFError", "UnicodeDecodeError",
                    "RuntimeError", "KeyboardInterrupt"}

\* the except clause of lines 193-197 that takes an exception raised inside
\* the try block
ExceptClause(e) ==
  IF e \in {"ValueError", "UnicodeDecodeError", "UnicodeEncodeError"}
  THEN "except ValueError"
  ELSE IF e = "KeyboardInterrupt" THEN "uncaught"
  ELSE "except Exception"

\* where the program is after the exception
AfterRaise(e) == IF ExceptClause(e) = "uncaught" THEN "aborted" ELSE "error"

\* line 180 prints, wait_for_keystroke (181) returns
Begin ==
  /\ pc = "begin"
  /\ pc' = "start"
  /\ UNCHANGED <<source, period, tables, stock_data, df_with_rsi, calc,
                 last_rsi, band, error, raised_at, handler, called>>

\* line 180 (not ASCII) or the wait of line 181 raises, outside the try block
BeginRaises ==
  /\ pc = "begin"
  /\ \E e \in WaitErrors \cup EncodeErrors : error' = e
  /\ raised_at' = "environment"
  /\ handler' = "uncaught"
  /\ pc' = "aborted"
  /\ UNCHANGED <<source, period, tables, stock_data, df_with_rsi, calc,
                 last_rsi, band, called>>

\* a wait inside the try block (or a print next to it) raises
WaitRaises ==
  /\ pc \in TryWaits
  /\ \E e \in WaitErrors :
       /\ error' = e
       /\ handler' = ExceptClause(e)
       /\ pc' = AfterRaise(e)
  /\ raised_at' = "environment"
  /\ UNCHANGED <<source, period, tables, stock_data, df_with_rsi, calc,
                 last_rsi, band, called>>

\* stock_data = fetch_stock_data(TICKER, PERIOD), rows returned;
\* calculate_rsi is called and waits at line 54
FetchStockData ==
  /\ pc = "start"
  /\ ~IsEmpty(source)
  /\ tables' = Append(tables, MakeTable(source))
  /\ stock_data' = Len(tables) + 1
  /\ called' = called \o <<"fetch_stock_data", "calculate_rsi">>
  /\ pc' = "fetched"
  /\ UNCHANGED <<source, period, df_with_rsi, calc, last_rsi, band, error,
                 raised_at, handler>>

\* fetch_stock_data raises ValueError at line 36; __main__ takes it at
\* line 193
FetchStockDataEmpty ==
  /\ pc = "start"
  /\ IsEmpty(source)
  /\ called' = Append(called, "fetch_stock_data")
  /\ error' = "ValueError"
  /\ raised_at' = "fetch_stock_data"
  /\ handler' = ExceptClause("ValueError")
  /\ pc' = AfterRaise("ValueError")
  /\ UNCHANGED <<source, period, tables, stock_data, df_with_rsi, calc,
                 last_rsi, band>>

\* fetch_stock_data is ended by the environment: a print fails (27-40; the
\* text of line 40 is not ASCII and is printed only for a source with rows),
\* the download fails (31, OSError), to_markdown finds no tabulate package
\* (42, ImportError, only for a source with rows), or SIGINT arrives
FetchRaises ==
  /\ pc = "start"
  /\ called' = Append(called, "fetch_stock_data")
  /\ \E e \in PrintErrors \cup {"KeyboardInterrupt"}
            \cup (IF IsEmpty(source)
                  THEN {}
                  ELSE {"UnicodeEncodeError", "ImportError"}) :
       /\ error' = e
       /\ handler' = ExceptClause(e)
       /\ pc' = AfterRaise(e)
  /\ raised_at' = "environment"
  /\ UNCHANGED <<source, period, tables, stock_data, df_with_rsi, calc,
                 last_rsi, band>>

\* SIGINT between the assignment of line 185 and the call of line 188
FetchThenInterrupt ==
  /\ pc = "start"
  /\ ~IsEmpty(source)
  /\ tables' = Append(tables, MakeTable(source))
  /\ stock_data' = Len(tables) + 1
  /\ called' = Append(called, "fetch_stock_data")
  /\ error' = "KeyboardInterrupt"
  /\ raised_at' = "environment"
  /\ handler' = "uncaught"
  /\ pc' = "aborted"
  /\ UNCHANGED <<source, period, df_with_rsi, calc, last_rsi, band>>

\* calculate_rsi, lines 54-71: ENTER, then delta, gain and loss
CalculateRsiDelta ==
  /\ pc = "fetched"
  /\ calc' = AfterDelta(NoLocals, tables[stock_data])
  /\ pc' = "delta"
  /\ UNCHANGED <<source, period, tables, stock_data, df_with_rsi, last_rsi,
                 band, error, raised_at, handler, called>>

\* calculate_rsi, lines 71-91: ENTER, then the smoothed averages
CalculateRsiSmooth ==
  /\ pc = "delta"
  /\ ~SpanRejected(period)
  /\ calc' = AfterSmoothing(calc, period)
  /\ pc' = "smoothed"
  /\ UNCHANGED <<source, period, tables, stock_data, df_with_rsi, last_rsi,
                 band, error, raised_at, handler, called>>

\* calculate_rsi, lines 71-78: ENTER, then .ewm(span=period) raises
\* ValueError; __main__ takes it at line 193
CalculateRsiSpanError ==
  /\ pc = "delta"
  /\ SpanRejected(period)
  /\ error' = "ValueError"
  /\ raised_at' = "calculate_rsi"
  /\ handler' = ExceptClause("ValueError")
  /\ pc' = AfterRaise("ValueError")
  /\ UNCHANGED <<source, period, tables, stock_data, df_with_rsi, calc,
                 last_rsi, band, called>>

\* calculate_rsi, lines 91-118: ENTER, then rs
CalculateRsiRatio ==
  /\ pc = "smoothed"
  /\ calc' = AfterRatio(calc)
  /\ pc' = "ratio"
  /\ UNCHANGED <<source, period, tables, stock_data, df_with_rsi, last_rsi,
                 band, error, raised_at, handler, called>>

\* calculate_rsi, lines 118-132: ENTER, then rsi, the assignment into the
\* table and the return; df_with_rsi is assigned (188) and interpret_results
\* is called (191) and waits at line 140
CalculateRsi ==
  /\ pc = "ratio"
  /\ LET loc == AfterRsi(calc)
         res == AssignAndReturn(tables, stock_data, loc.rsi)
     IN  /\ calc' = loc
         /\ tables' = res.objs
         /\ df_with_rsi' = res.ret
  /\ called' = Append(called, "interpret_results")
  /\ pc' = "calculated"
  /\ UNCHANGED <<source, period, stock_data, last_rsi, band, error,
                 raised_at, handler>>

\* calculate_rsi is ended after the assignment of line 128 by a print that
\* fails (130-131) or by SIGINT: the table has the RSI field, nothing is
\* returned
AssignRaises ==
  /\ pc = "ratio"
  /\ LET loc == AfterRsi(calc)
     IN  /\ calc' = loc
         /\ tables' = AssignAndReturn(tables, stock_data, loc.rsi).objs
  /\ \E e \in PrintErrors \cup {"KeyboardInterrupt"} :
       /\ error' = e
       /\ handler' = ExceptClause(e)
       /\ pc' = AfterRaise(e)
  /\ raised_at' = "environment"
  /\ UNCHANGED <<source, period, stock_data, df_with_rsi, last_rsi, band,
                 called>>

\* SIGINT between the assignment of line 188 and the call of line 191
CalculateThenInterrupt ==
  /\ pc = "ratio"
  /\ LET loc == AfterRsi(calc)
         res == AssignAndReturn(tables, stock_data, loc.rsi)
     IN  /\ calc' = loc
         /\ tables' = res.objs
         /\ df_with_rsi' = res.ret
  /\ error' = "KeyboardInterrupt"
  /\ raised_at' = "environment"
  /\ handler' = "uncaught"
  /\ pc' = "aborted"
  /\ UNCHANGED <<source, period, stock_data, last_rsi, band, called>>

\* interpret_results, lines 140-150: ENTER, then last_rsi is read
InterpretResultsRead ==
  /\ pc = "calculated"
  /\ IF Len(tables[df_with_rsi].index) = 0
     THEN \* .iloc[-1] on no rows: IndexError, taken at line 196
          /\ error' = "IndexError"
          /\ raised_at' = "interpret_results"
          /\ handler' = ExceptClause("IndexError")
          /\ pc' = AfterRaise("IndexError")
          /\ UNCHANGED last_rsi
     ELSE /\ last_rsi' = LastRsi(tables[df_with_rsi])
          /\ pc' = "read"
          /\ UNCHANGED <<error, raised_at, handler>>
  /\ UNCHANGED <<source, period, tables, stock_data, df_with_rsi, calc, band,
                 called>>

\* interpret_results, lines 150-170: ENTER, then the if/elif chain
InterpretResults ==
  /\ pc = "read"
  /\ band' = Classify(last_rsi)
  /\ pc' = "done"
  /\ UNCHANGED <<source, period, tables, stock_data, df_with_rsi, calc,
                 last_rsi, error, raised_at, handler, called>>

\* the branch of the if/elif chain is taken and one of its prints (157-170,
\* not ASCII) fails, or SIGINT arrives there
ClassifyRaises ==
  /\ pc = "read"
  /\ band' = Classify(last_rsi)
  /\ \E e \in EncodeErrors \cup {"KeyboardInterrupt"} :
       /\ error' = e
       /\ handler' = ExceptClause(e)
       /\ pc' = AfterRaise(e)
  /\ raised_at' = "environment"
  /\ UNCHANGED <<source, period, tables, stock_data, df_with_rsi, calc,
                 last_rsi, called>>

\* a print of the except clause (194-195, 197) fails, or SIGINT arrives
\* there: the exception leaves the program
HandlerRaises ==
  /\ pc = "error"
  /\ \E e \in PrintErrors \cup {"KeyboardInterrupt"} : error' = e
  /\ raised_at' = "environment"
  /\ handler' = "uncaught"
  /\ pc' = "aborted"
  /\ UNCHANGED <<source, period, tables, stock_data, df_with_rsi, calc,
                 last_rsi, band, called>>

Next ==
  \/ Begin
  \/ BeginRaises
  \/ WaitRaises
  \/ FetchStockData
  \/ FetchStockDataEmpty
  \/ FetchRaises
  \/ FetchThenInterrupt
  \/ CalculateRsiDelta
  \/ CalculateRsiSmooth
  \/ CalculateRsiSpanError
  \/ CalculateRsiRatio
  \/ CalculateRsi
  \/ AssignRaises
  \/ CalculateThenInterrupt
  \/ InterpretResultsRead
  \/ InterpretResults
  \/ ClassifyRaises
  \/ HandlerRaises

Spec == Init /\ [][Next]_vars

-----------------------------------------------------------------------------
(* interpret_results called on any table whose last RSI value is drawn     *)
(* from a grid of values around the thresholds.                            *)

ClassifyInputs ==
  {NaN}
  \cup {<<Frac(n, GridDen)>> :
          n \in (0 - GridMargin * GridDen)..((Hundred + GridMargin) * GridDen)}
  \cup {<<Frac(OverboughtLevel * 10000 + 1, 10000)>>,
        <<Frac(OversoldLevel * 10000 - 1, 10000)>>}

InitClassify ==
  /\ pc = "calculated"
  /\ source = <<<<0>>>>
  /\ period = RSI_PERIOD
  /\ \E v \in ClassifyInputs :
       tables = <<[index |-> <<1>>, columns |-> <<"Close", "RSI">>,
                   Close |-> <<<<0>>>>, RSI |-> <<v>>]>>
  /\ stock_data = 1
  /\ df_with_rsi = 1
  /\ calc = NoLocals
  /\ last_rsi = NaN
  /\ band = "NONE"
  /\ error = "none"
  /\ raised_at = "none"
  /\ handler = "none"
  /\ called = <<"interpret_results">>

NextClassify ==
  \/ InterpretResultsRead
  \/ InterpretResults
  \/ WaitRaises
  \/ ClassifyRaises
  \/ HandlerRaises

SpecClassify == InitClassify /\ [][NextClassify]_vars

-----------------------------------------------------------------------------
(* Properties.                                                             *)

N == Len(source)
\* calculate_rsi has returned
Computed == df_with_rsi # 0
\* no statement of the program has raised on the data it was given: an
\* exception, if any, came from the environment
NoOwnError == raised_at \in {"none", "environment"}
RsiCol == tables[df_with_rsi].RSI
RsiDefined == {i \in 1..Len(RsiCol) : ~IsNaN(RsiCol[i])}
Defined(s) == {s[i].t : i \in {j \in 1..Len(s) : ~IsNaN(s[j].v)}}
NoMissing == \A i \in 1..N : ~IsNaN(source[i])
Constant == NoMissing /\ \A i \in 1..N : source[i] = source[1]
StrictlyDecreasing ==
  NoMissing /\ \A i \in 2..N : source[i][1] < source[i - 1][1]
Min(a, b) == IF a < b THEN a ELSE b
NonNeg(r) == IntSign(r.num) * IntSign(r.den) >= 0
Bands == {"UNDETERMINED", "OVERBOUGHT", "OVERSOLD", "NEUTRAL"}

\* C1: interpret_results assigns exactly one band to every last RSI value:
\* NaN gives UNDETERMINED, a value > 70 OVERBOUGHT, a value < 30 OVERSOLD,
\* and every value in [30, 70] NEUTRAL (70 and 30 included); the
\* read of the last value and the comparisons raise nothing on any of these
\* values (an exception can only come from the environment, whatever its
\* type), and whenever the chain is reached a band is assigned.
C1_ClassifierTotal ==
  /\ NoOwnError
  /\ raised_at = "none" <=> error = "none"
  /\ pc = "done" => band # "NONE"
  /\ pc \in {"read", "done"} => last_rsi = LastRsi(tables[df_with_rsi])
  /\ band # "NONE" =>
       LET v == LastRsi(tables[df_with_rsi])
       IN  /\ band \in Bands
           /\ (band = "UNDETERMINED") <=> IsNaN(v)
           /\ (band = "OVERBOUGHT") <=> (~IsNaN(v) /\ RatCmp(v[1], RatOf(70)) > 0)
           /\ (band = "OVERSOLD") <=> (~IsNaN(v) /\ RatCmp(v[1], RatOf(30)) < 0)
           /\ (band = "NEUTRAL") <=>
                (/\ ~IsNaN(v)
                 /\ RatCmp(v[1], RatOf(30)) >= 0
                 /\ RatCmp(v[1], RatOf(70)) <= 0)

C1_Witness ==
  /\ pc = "done"
  /\ ~IsNaN(last_rsi)
  /\ RatEq(last_rsi[1], RatOf(70))
  /\ band = "NEUTRAL"

\* C2: wherever the smoothed average loss is 0, RS is 100 whatever the
\* smoothed average gain is, and RSI is 100 - 100/101; a constant series of
\* at least 20 steps with period 14 ends with RSI = 100 - 100/101 and is
\* classified OVERBOUGHT.
C2_ZeroLossSaturates ==
  Computed =>
    /\ \A i \in 1..Len(calc.avg_loss) :
         (~IsNaN(calc.avg_loss[i].v) /\ RatIsZero(calc.avg_loss[i].v[1])) =>
           LET t == calc.avg_loss[i].t
           IN  /\ t \in Labels(calc.rs)
               /\ RatEq(ValueAt(calc.rs, t)[1], RatOf(100))
               /\ ~IsNaN(RsiCol[Position(tables[df_with_rsi].index, t)])
               /\ RatEq(RsiCol[Position(tables[df_with_rsi].index, t)][1],
                        Frac(100 * 101 - 100, 101))
    /\ (period = 14 /\ Constant /\ N >= 20) =>
         /\ ~IsNaN(RsiCol[N])
         /\ RatEq(RsiCol[N][1], Frac(100 * 101 - 100, 101))
         /\ band # "NONE" => band = "OVERBOUGHT"

C2_Witness ==
  /\ pc = "done"
  /\ period = 14
  /\ Constant
  /\ N >= 20
  /\ RatIsZero(calc.avg_gain[Len(calc.avg_gain)].v[1])
  /\ RatIsZero(calc.avg_loss[Len(calc.avg_loss)].v[1])
  /\ band = "OVERBOUGHT"

\* C3: every gain and every absolute loss is non-negative, so every RS is
\* non-negative and every defined RSI value lies in [0, 100].
C3_RsiRange ==
  Computed =>
    /\ \A i \in 1..Len(calc.gain) : calc.gain[i].v[1] >= 0
    /\ \A i \in 1..Len(calc.abs_loss) : calc.abs_loss[i].v[1] >= 0
    /\ \A i \in 1..Len(calc.rs) : NonNeg(calc.rs[i].v[1])
    /\ \A i \in RsiDefined :
         /\ RatCmp(RsiCol[i][1], RatOf(0)) >= 0
         /\ RatCmp(RsiCol[i][1], RatOf(100)) <= 0

C3_Witness ==
  /\ Computed
  /\ \E i \in 1..Len(calc.loss) : calc.loss[i].v[1] < 0
  /\ \E i \in RsiDefined :
       /\ RatCmp(RsiCol[i][1], RatOf(0)) > 0
       /\ RatCmp(RsiCol[i][1], RatOf(99)) < 0

\* C4 as stated: the average gain and the average loss are defined at the
\* same positions, and the RSI column is defined at a subset of the index
\* with at least `period` fewer positions than the price series.
C4_Original ==
  Computed =>
    /\ Defined(calc.avg_gain) = Defined(calc.avg_loss)
    /\ RsiDefined \subseteq 1..N
    /\ Cardinality(RsiDefined) <= N - period

\* C4 amended: ... with at least `period` fewer positions than the price
\* series when the series has at least `period` entries, and with no
\* position at all otherwise.
C4_Alignment ==
  Computed =>
    /\ Defined(calc.avg_gain) = Defined(calc.avg_loss)
    /\ {tables[df_with_rsi].index[i] : i \in RsiDefined} = Defined(calc.avg_loss)
    /\ RsiDefined \subseteq 1..N
    /\ Cardinality(RsiDefined) <= N - Min(N, period)

C4_Witness ==
  /\ Computed
  /\ N > period
  /\ Cardinality(RsiDefined) = N - period
  /\ Defined(calc.avg_gain) # {}

\* C5: with at least 2 and fewer than `period` prices, no statement of
\* calculate_rsi or interpret_results raises on that series (an exception
\* can only come from the environment, whatever its type); calculate_rsi
\* returns a table whose RSI field exists and is undefined at every
\* position, and interpret_results yields UNDETERMINED.
C5_ShortHistory ==
  (2 <= N /\ N < period) =>
    /\ NoOwnError
    /\ raised_at = "none" <=> error = "none"
    /\ Computed =>
         /\ HasColumn(tables[df_with_rsi], "RSI")
         /\ Len(RsiCol) = N
         /\ \A i \in 1..N : IsNaN(RsiCol[i])
    /\ pc \in {"read", "done"} => IsNaN(last_rsi)
    /\ band # "NONE" => band = "UNDETERMINED"

C5_Witness ==
  /\ pc = "done"
  /\ 2 <= N
  /\ N < period
  /\ NoMissing
  /\ band = "UNDETERMINED"

\* C6: with fewer than 2 prices the delta step fails, the pipeline is
\* aborted, and neither an RSI output (not even an all-undefined one) nor a
\* classification is produced.  The code has no such check: a one-row table
\* passes the delta step with an empty delta series.
C6_Original ==
  N < 2 =>
    /\ ~Computed
    /\ stock_data # 0 => ~HasColumn(tables[stock_data], "RSI")
    /\ band = "NONE"

\* C7: when the data source returns no rows, the only exception a statement
\* of the program raises is the ValueError of fetch_stock_data (line 36),
\* which the except ValueError clause reports, and calculate_rsi and
\* interpret_results are never called: nothing is computed, nothing
\* retried, no table is bound.  (The environment can end the run earlier.)
C7_EmptySourceStops ==
  Len(source) = 0 =>
    /\ pc \in {"begin", "start", "error", "aborted"}
    /\ pc \in {"begin", "start"} => (called = <<>> /\ error = "none")
    /\ called \in {<<>>, <<"fetch_stock_data">>}
    /\ raised_at \in {"none", "environment", "fetch_stock_data"}
    /\ raised_at = "none" <=> error = "none"
    /\ raised_at = "fetch_stock_data" =>
         /\ pc = "error"
         /\ error = "ValueError"
         /\ handler = "except ValueError"
         /\ called = <<"fetch_stock_data">>
    /\ tables = <<>>
    /\ stock_data = 0
    /\ df_with_rsi = 0
    /\ calc = NoLocals
    /\ band = "NONE"

C7_Witness ==
  /\ Len(source) = 0
  /\ pc = "error"
  /\ raised_at = "fetch_stock_data"
  /\ error = "ValueError"
  /\ handler = "except ValueError"
  /\ called = <<"fetch_stock_data">>

\* C8 as stated: after calculate_rsi the table passed in is as it was
\* fetched (same timestamps, same prices, no added field) and the RSI values
\* are in a new table distinct from it.
C8_Original ==
  Computed =>
    /\ tables[stock_data] = MakeTable(source)
    /\ df_with_rsi # stock_data
    /\ HasColumn(tables[df_with_rsi], "RSI")

\* C8 amended: after calculate_rsi the table passed in has the same
\* timestamps in the same order and the same closing prices, but it is not
\* left untouched: the RSI field is added to that very table, which is also
\* the table returned; no new table is made.
C8_InPlace ==
  Computed =>
    /\ df_with_rsi = stock_data
    /\ Len(tables) = 1
    /\ tables[stock_data].index = MakeTable(source).index
    /\ tables[stock_data].Close = source
    /\ tables[stock_data].columns = <<"Close", "RSI">>
    /\ Len(tables[stock_data].RSI) = N
    /\ \A i \in 1..N :
         tables[stock_data].RSI[i] =
           IF tables[stock_data].index[i] \in Labels(calc.rsi)
           THEN ValueAt(calc.rsi, tables[stock_data].index[i])
           ELSE NaN

C8_Witness ==
  /\ Computed
  /\ df_with_rsi = stock_data
  /\ tables[stock_data] # MakeTable(source)
  /\ RsiDefined # {}

\* C9: for a strictly decreasing series of at least 20 steps with period 14
\* every gain is 0, the average gain is 0 and the average loss is positive
\* wherever defined, RS and RSI are 0 at the last position, and the
\* classification is OVERSOLD.
C9_MonotoneDown ==
  (Computed /\ period = 14 /\ StrictlyDecreasing /\ N >= 20) =>
    /\ \A i \in 1..Len(calc.gain) : calc.gain[i].v[1] = 0
    /\ \A i \in 1..Len(calc.avg_gain) :
         ~IsNaN(calc.avg_gain[i].v) =>
           /\ RatIsZero(calc.avg_gain[i].v[1])
           /\ RatCmp(calc.avg_loss[i].v[1], RatOf(0)) > 0
    /\ calc.rs # <<>>
    /\ calc.rs[Len(calc.rs)].t = N
    /\ RatEq(calc.rs[Len(calc.rs)].v[1], RatOf(0))
    /\ ~IsNaN(RsiCol[N])
    /\ RatEq(RsiCol[N][1], RatOf(0))
    /\ band # "NONE" => band = "OVERSOLD"

C9_Witness ==
  /\ pc = "done"
  /\ period = 14
  /\ StrictlyDecreasing
  /\ N >= 20
  /\ \E i \in 3..N : source[i - 1][1] - source[i][1] # source[i - 2][1] - source[i - 1][1]
  /\ band = "OVERSOLD"

\* C10: for a series without missing prices the defined RSI positions are a
\* contiguous suffix of the index ending at the last timestamp, so the value
\* classified is the most recent defined RSI value whenever there is one,
\* and the band is UNDETERMINED only when no RSI value is defined.
C10_LatestDefined ==
  (Computed /\ NoMissing) =>
    /\ \A i \in RsiDefined : \A j \in i..N : j \in RsiDefined
    /\ pc = "done" =>
         /\ RsiDefined # {} =>
              /\ last_rsi = RsiCol[CHOOSE i \in RsiDefined : \A j \in RsiDefined : j <= i]
              /\ band # "UNDETERMINED"
         /\ RsiDefined = {} => band = "UNDETERMINED"

C10_Witness ==
  /\ pc = "done"
  /\ NoMissing
  /\ RsiDefined # {}
  /\ RsiDefined # 1..N
  /\ N \in RsiDefined
  /\ band # "UNDETERMINED"

=============================================================================
